---------------------------- MODULE Spec2Model ----------------------------
(***************************************************************************)
(* Citation recognition (lib/citations: extractCitations and friends), the *)
(* text linker (LinkedText) and the ego-network builder (CitationGraph).   *)
(*                                                                         *)
(* A text is a sequence of characters, each character a one-character      *)
(* string.  Offsets are JavaScript offsets: 0-based, end exclusive.        *)
(***************************************************************************)
EXTENDS Integers, Sequences, FiniteSets, TLC

VARIABLES
    text,          \* the text prop LinkedText was last rendered with
    lastIndex,     \* lastIndex of the module-level regexes patterns.bge/docket/article
    entered,       \* whether a regex had a lastIndex other than 0 when the last render began
    citations,     \* what extractCitations returned in the last render
    parts,         \* the parts LinkedText emitted in the last render
    chunks,        \* how many chunks the text was composed of (bounds the model)
    widened,       \* whether the text is a rewriting, with more whitespace, of a rendered text
    arg,           \* the CitationMatch handed to citationToSearchQuery
    query,         \* what citationToSearchQuery returned
    linkMounted,   \* whether the CitationLink is mounted (linkRef.current is set)
    showPreview,   \* CitationLink: the state `showPreview`
    timeoutRef,    \* CitationLink: timeoutRef.current
    hoverTimers,   \* the pending hover timers of the CitationLink
    enters,        \* how many times the mouse has entered the link
    over,          \* whether the mouse has entered and not left since
    hovered,       \* the queries onHover was called with, in order
    currentDecisionId, \* CitationGraph prop
    records,       \* CitationGraph prop: citations
    nodes,         \* useMemo result: nodes
    links,         \* useMemo result: links
    width,         \* CitationGraph prop, in pixels
    height,        \* CitationGraph prop, in pixels
    mounted,       \* whether the CitationGraph is mounted
    positions,     \* useForceSimulation: the state `positions` (what was last set)
    velocitiesRef, \* useForceSimulation: velocitiesRef.current
    animationRef,  \* useForceSimulation: animationRef.current
    run,           \* how many times the effect of useForceSimulation has run
    closures,      \* the variables each run of the effect closed over, per run
    timers,        \* the runs whose start timer is pending
    frames,        \* the pending animation-frame callbacks
    cleaned        \* what was pending when the effect was last cleaned up

vars == <<text, lastIndex, entered, citations, parts, chunks, widened, arg, query,
          linkMounted, showPreview, timeoutRef, hoverTimers, enters, over, hovered,
          currentDecisionId, records, nodes, links, width, height, mounted,
          positions, velocitiesRef, animationRef, run, closures, timers, frames,
          cleaned>>

linkerVars == <<text, lastIndex, entered, citations, parts, chunks, widened>>
hoverVars == <<linkMounted, showPreview, timeoutRef, hoverTimers, enters, over, hovered>>
queryVars == <<arg, query, hoverVars>>
graphVars == <<currentDecisionId, records, nodes, links>>
simVars == <<width, height, mounted, positions, velocitiesRef, animationRef, run,
             closures, timers, frames, cleaned>>

-----------------------------------------------------------------------------
(* Bounds of the model *)

MaxChunks == 3
MaxSharedChunks == 2
MaxFormatChunks == 2
MaxRecords == 3
MaxRuns == 2
MaxTicks == 3
MaxEnters == 2

-----------------------------------------------------------------------------
(* Characters and the character classes the patterns use *)

UpperSeq == <<"A","B","C","D","E","F","G","H","I","J","K","L","M",
              "N","O","P","Q","R","S","T","U","V","W","X","Y","Z">>
LowerSeq == <<"a","b","c","d","e","f","g","h","i","j","k","l","m",
              "n","o","p","q","r","s","t","u","v","w","x","y","z">>

Range(s) == { s[k] : k \in 1..Len(s) }

\* [A-Z]
Upper == Range(UpperSeq)
\* [a-z]
Lower == Range(LowerSeq)
\* \d
Digit == {"0","1","2","3","4","5","6","7","8","9"}
\* \s (the ASCII members)
Space == {" ", "\t", "\n", "\r"}
\* [IVX]
Roman == {"I","V","X"}
\* the characters \b tells apart from the others: [A-Za-z0-9_]
Word == Upper \cup Lower \cup Digit \cup {"_"}

\* Canonicalize of the i flag, on ASCII letters
Fold == [c \in Upper |-> LowerSeq[CHOOSE k \in 1..26 : UpperSeq[k] = c]]
ToLower(c) == IF c \in Upper THEN Fold[c] ELSE c

\* whether text character a matches pattern character b; ci: under the i flag
SameChar(a, b, ci) == a = b \/ (ci /\ ToLower(a) = ToLower(b))

\* String.prototype.slice(a, b) with 0 <= a <= b <= length
Slice(t, a, b) == SubSeq(t, a + 1, b)

-----------------------------------------------------------------------------
(* A pattern is a sequence of steps; Match runs the steps from an offset   *)
(* of the text as a backtracking matcher does.  A position is an offset,   *)
(* or NoMatch once the attempt has failed.                                 *)

NoMatch == -1

\* the steps
Boundary == [op |-> "b"]                         \* \b
Lits(alts, ci) == [op |-> "lit", alts |-> alts, ci |-> ci]  \* (a|b|c), ci: the i flag
OneOrMore(S) == [op |-> "plus", set |-> S]            \* [S]+
ZeroOrMore(S) == [op |-> "star", set |-> S]             \* [S]*
Single(S) == [op |-> "one", set |-> S]           \* [S]
Optional(sub) == [op |-> "opt", sub |-> sub]     \* (?:sub)?
Repeated(sub) == [op |-> "rep", sub |-> sub]     \* (?:sub)*

\* \b at offset i
WordBoundary(t, i) ==
    LET before == i > 0 /\ t[i] \in Word
        after  == i < Len(t) /\ t[i + 1] \in Word
    IN  before # after

\* greedy [S]* from i: the offset after the longest run of characters of S
RECURSIVE Run(_, _, _)
Run(t, i, S) == IF i < Len(t) /\ t[i + 1] \in S THEN Run(t, i + 1, S) ELSE i

\* greedy [S]+ from i (what follows a + in the three patterns begins with a
\* character outside S, so giving characters back never helps)
Plus(t, i, S) == LET e == Run(t, i, S) IN IF e > i THEN e ELSE NoMatch

\* one character of S
One(t, i, S) == IF i < Len(t) /\ t[i + 1] \in S THEN i + 1 ELSE NoMatch

\* a literal
Lit(t, i, s, ci) ==
    IF i + Len(s) > Len(t) THEN NoMatch
    ELSE IF \A k \in 1..Len(s) : SameChar(t[i + k], s[k], ci)
         THEN i + Len(s) ELSE NoMatch

\* (a|b|c) of literals: the first alternative that matches (no alternative of
\* the three patterns is a prefix of a later one)
RECURSIVE Alt(_, _, _, _, _)
Alt(t, i, alts, k, ci) ==
    IF k > Len(alts) THEN NoMatch
    ELSE LET e == Lit(t, i, alts[k], ci)
         IN  IF e # NoMatch THEN e ELSE Alt(t, i, alts, k + 1, ci)

\* the offset after steps k.. of the pattern matched from offset i
RECURSIVE Match(_, _, _, _)
Match(t, i, steps, k) ==
    IF i = NoMatch THEN NoMatch
    ELSE IF k > Len(steps) THEN i
    ELSE LET s == steps[k]
         IN  CASE s.op = "b" ->
                    IF WordBoundary(t, i) THEN Match(t, i, steps, k + 1) ELSE NoMatch
               [] s.op = "lit" -> Match(t, Alt(t, i, s.alts, 1, s.ci), steps, k + 1)
               [] s.op = "plus" -> Match(t, Plus(t, i, s.set), steps, k + 1)
               [] s.op = "star" -> Match(t, Run(t, i, s.set), steps, k + 1)
               [] s.op = "one" -> Match(t, One(t, i, s.set), steps, k + 1)
               \* greedy: with the group first, without it when the rest fails
               [] s.op = "opt" ->
                    LET with == Match(t, Match(t, i, s.sub, 1), steps, k + 1)
                    IN  IF with # NoMatch THEN with ELSE Match(t, i, steps, k + 1)
               \* greedy: as many rounds as match (only at the end of a pattern)
               [] s.op = "rep" ->
                    LET round == Match(t, i, s.sub, 1)
                    IN  IF round # NoMatch THEN Match(t, round, steps, k)
                        ELSE Match(t, i, steps, k + 1)

-----------------------------------------------------------------------------
(* const patterns = { bge, docket, article }: the steps of each regex and,  *)
(* for each capture group the code reads, the steps it begins and ends after *)

Markers == << <<"B","G","E">>, <<"A","T","F">>, <<"D","T","F">> >>

\* the second alternative of the article marker, as the source file spells
\* it: the two characters U+0E22 U+0E07
SectionMark == <<"U+0E22", "U+0E07">>

ArticleMarkers == << <<"A","r","t",".">>, SectionMark >>
ParagraphMarkers == << <<"A","b","s",".">>, <<"a","l",".">>, <<"p","a","r","a",".">> >>
LetterMarkers == << <<"l","i","t",".">>, <<"B","s","t",".">> >>
\* Cst\.? is greedy: with the dot first
Codes == << <<"O","R">>, <<"Z","G","B">>, <<"S","t","G","B">>, <<"B","V">>,
            <<"C","O">>, <<"C","C">>, <<"C","P">>, <<"C","s","t",".">>,
            <<"C","s","t">>, <<"S","c","h","K","G">>, <<"V","w","V","G">>,
            <<"B","G","G">>, <<"Z","P","O">>, <<"S","t","P","O">>,
            <<"A","T","S","G">> >>

\* /\b(BGE|ATF|DTF)\s+(\d+)\s+([IVX]+)\s+(\d+)(?:\s+E\.\s*(\d+(?:\.\d+)*))?/g
PatternBge ==
    [steps |-> << Boundary, Lits(Markers, FALSE), OneOrMore(Space), OneOrMore(Digit),
                  OneOrMore(Space), OneOrMore(Roman), OneOrMore(Space), OneOrMore(Digit),
                  Optional(<< OneOrMore(Space), Lits(<< <<"E", ".">> >>, FALSE),
                              ZeroOrMore(Space), OneOrMore(Digit),
                              Repeated(<< Lits(<< <<".">> >>, FALSE), OneOrMore(Digit) >>) >>) >>,
     groups |-> << <<1, 2>>, <<3, 4>>, <<5, 6>>, <<7, 8>> >>]

\* /\b(\d[A-Z])_(\d+)\/(\d{4})\b/g
PatternDocket ==
    [steps |-> << Boundary, Single(Digit), Single(Upper), Lits(<< <<"_">> >>, FALSE),
                  OneOrMore(Digit), Lits(<< <<"/">> >>, FALSE),
                  Single(Digit), Single(Digit), Single(Digit), Single(Digit),
                  Boundary >>,
     groups |-> << <<1, 3>>, <<4, 5>>, <<6, 10>> >>]

\* /\b(Art\.|..)\s*(\d+(?:\s*(?:Abs\.|al\.|para\.)\s*\d+)?(?:\s*(?:lit\.|Bst\.)\s*[a-z])?)
\*  \s+(OR|ZGB|StGB|BV|CO|CC|CP|Cst\.?|SchKG|VwVG|BGG|ZPO|StPO|ATSG)/gi
PatternArticle ==
    [steps |-> << Boundary, Lits(ArticleMarkers, TRUE), ZeroOrMore(Space), OneOrMore(Digit),
                  Optional(<< ZeroOrMore(Space), Lits(ParagraphMarkers, TRUE),
                              ZeroOrMore(Space), OneOrMore(Digit) >>),
                  Optional(<< ZeroOrMore(Space), Lits(LetterMarkers, TRUE),
                              ZeroOrMore(Space), Single(Lower \cup Upper) >>),
                  OneOrMore(Space), Lits(Codes, TRUE) >>,
     groups |-> << >>]

Kinds == {"bge", "docket", "article"}

patterns == [k \in Kinds |-> CASE k = "bge" -> PatternBge
                               [] k = "docket" -> PatternDocket
                               [] k = "article" -> PatternArticle]

-----------------------------------------------------------------------------
(* RegExp.prototype.exec on a global regex, and the loops over it *)

\* what exec returns: index NoMatch stands for null
Null == [index |-> NoMatch, end |-> NoMatch, groups |-> <<>>]

\* the offset after the first k steps of a pattern that matches at i
After(p, t, i, k) == Match(t, i, SubSeq(p.steps, 1, k), 1)

MatchResult(p, t, i, e) ==
    IF e = NoMatch THEN Null
    ELSE [index |-> i, end |-> e,
          groups |-> [g \in 1..Len(p.groups) |->
                        Slice(t, After(p, t, i, p.groups[g][1]),
                                 After(p, t, i, p.groups[g][2]))]]

\* the match of regex `kind` at offset i exactly
MatchAt(kind, t, i) == MatchResult(patterns[kind], t, i, Match(t, i, patterns[kind].steps, 1))

\* the leftmost match that starts at or after offset i
RECURSIVE Search(_, _, _)
FirstOf(m, kind, t, i) == IF m # Null THEN m ELSE Search(kind, t, i + 1)
Search(kind, t, i) ==
    IF i > Len(t) THEN Null ELSE FirstOf(MatchAt(kind, t, i), kind, t, i)

\* exec: the match (or null) and the regex's lastIndex afterwards
ExecResult(m) == [match |-> m, lastIndex |-> IF m = Null THEN 0 ELSE m.end]
Exec(kind, t, li) == ExecResult(IF li > Len(t) THEN Null ELSE Search(kind, t, li))

\* `patterns.x.lastIndex = 0` before a regex is used
KeepLastIndex(li) == li
ResetLastIndex(li) == 0

\* an absent optional field, and a present one
None == <<>>
Some(v) == <<v>>

Sp == <<" ">>

\* the template literals of the normalized forms
NormalizedBgeSwapped(g) == g[1] \o Sp \o g[2] \o Sp \o g[4] \o Sp \o g[3]
NormalizedBge(g) == g[1] \o Sp \o g[2] \o Sp \o g[3] \o Sp \o g[4]
NormalizedDocket(g) == g[1] \o <<"_">> \o g[2] \o <<"/">> \o g[3]

\* the object pushed for a match
ToCitationInclusive(kind, t, m) ==
    [text |-> Slice(t, m.index, m.end), type |-> kind, start |-> m.index,
     end |-> m.index + Len(Slice(t, m.index, m.end)) - 1,
     normalized |-> CASE kind = "bge" -> Some(NormalizedBge(m.groups))
                      [] kind = "docket" -> Some(NormalizedDocket(m.groups))
                      [] kind = "article" -> None]
ToCitationVerbatim(kind, t, m) ==
    [text |-> Slice(t, m.index, m.end), type |-> kind, start |-> m.index,
     end |-> m.index + Len(Slice(t, m.index, m.end)),
     normalized |-> CASE kind = "bge" -> Some(Slice(t, m.index, m.end))
                      [] kind = "docket" -> Some(NormalizedDocket(m.groups))
                      [] kind = "article" -> None]
ToCitation(kind, t, m) ==
    [text |-> Slice(t, m.index, m.end), type |-> kind, start |-> m.index,
     end |-> m.index + Len(Slice(t, m.index, m.end)),
     normalized |-> CASE kind = "bge" -> Some(NormalizedBge(m.groups))
                      [] kind = "docket" -> Some(NormalizedDocket(m.groups))
                      [] kind = "article" -> None]

\* while ((match = patterns.x.exec(text)) !== null) matches.push(...)
RECURSIVE ExecAll(_, _, _, _)
Pushed(r, kind, t, acc) ==
    IF r.match = Null THEN [matches |-> acc, lastIndex |-> r.lastIndex]
    ELSE ExecAll(kind, t, r.lastIndex, Append(acc, ToCitation(kind, t, r.match)))
ExecAll(kind, t, li, acc) == Pushed(Exec(kind, t, li), kind, t, acc)

\* Array.prototype.sort((a, b) => a.start - b.start): stable
InsertByStart(sorted, m) ==
    LET n == Cardinality({k \in 1..Len(sorted) : sorted[k].start <= m.start})
    IN  SubSeq(sorted, 1, n) \o <<m>> \o SubSeq(sorted, n + 1, Len(sorted))

Unsorted(ms) == ms
RECURSIVE SortByStart(_)
SortByStart(ms) ==
    IF ms = <<>> THEN <<>>
    ELSE InsertByStart(SortByStart(SubSeq(ms, 1, Len(ms) - 1)), ms[Len(ms)])

\* the test of the overlap filter
KeepsAll(m, lastEnd) == TRUE
Keeps(m, lastEnd) == m.start >= lastEnd

\* for (const m of matches) if (m.start >= lastEnd) { push; lastEnd = m.end }
RECURSIVE RemoveOverlaps(_, _, _, _)
RemoveOverlaps(ms, k, lastEnd, filtered) ==
    IF k > Len(ms) THEN filtered
    ELSE IF Keeps(ms[k], lastEnd)
         THEN RemoveOverlaps(ms, k + 1, ms[k].end, Append(filtered, ms[k]))
         ELSE RemoveOverlaps(ms, k + 1, lastEnd, filtered)

\* the three scans of extractCitations(t), started with the regexes' lastIndex li
Scans(t, li) == [k \in Kinds |-> ExecAll(k, t, ResetLastIndex(li[k]), <<>>)]

\* the sort and the overlap filter over what the scans pushed
Filtered(s) ==
    [result |-> RemoveOverlaps(
                    SortByStart(s["bge"].matches \o s["docket"].matches
                                \o s["article"].matches), 1, 0, <<>>),
     lastIndex |-> [k \in Kinds |-> s[k].lastIndex]]

\* extractCitations(t): what it returns and what it leaves in the regexes
ExtractCitations(t, li) == Filtered(Scans(t, li))

\* hasCitations(t): `||` does not evaluate patterns.docket.test when bge matched
EitherTest(b, d, li) ==
    IF b.match # Null
    THEN [result |-> TRUE,
          lastIndex |-> [li EXCEPT !["bge"] = b.lastIndex,
                                   !["docket"] = ResetLastIndex(li["docket"])]]
    ELSE [result |-> d.match # Null,
          lastIndex |-> [li EXCEPT !["bge"] = b.lastIndex,
                                   !["docket"] = d.lastIndex]]
HasCitations(t, li) ==
    EitherTest(Exec("bge", t, ResetLastIndex(li["bge"])),
               Exec("docket", t, ResetLastIndex(li["docket"])), li)

\* parseBgeReference(t), parseDocketNumber(t): one exec each
Parsed(r, kind, li) == [result |-> r.match, lastIndex |-> [li EXCEPT ![kind] = r.lastIndex]]
ParseBgeReference(t, li) == Parsed(Exec("bge", t, ResetLastIndex(li["bge"])), "bge", li)
ParseDocketNumber(t, li) ==
    Parsed(Exec("docket", t, ResetLastIndex(li["docket"])), "docket", li)

\* citationToSearchQuery: `if (citation.normalized)` is a truthiness test
CitationToSearchQuery(c) ==
    IF c.normalized # None /\ c.normalized[1] # <<>> THEN c.normalized[1] ELSE c.text

-----------------------------------------------------------------------------
(* LinkedText *)

Literal(v) == [kind |-> "literal", value |-> v]
Link(c) == [kind |-> "citation", value |-> c.text, citation |-> c]

\* the text before a citation
GapShort(t, lastEnd, c) == Slice(t, lastEnd + 1, c.start)
Gap(t, lastEnd, c) == Slice(t, lastEnd, c.start)

\* citations.forEach(...) and the remaining text
RECURSIVE LinkPartsUnguarded(_, _, _, _, _)
LinkPartsUnguarded(t, cs, k, lastEnd, acc) ==
    IF k > Len(cs)
    THEN Append(acc, Literal(Slice(t, lastEnd, Len(t))))
    ELSE LinkPartsUnguarded(t, cs, k + 1, cs[k].end,
                            Append(acc, Literal(Gap(t, lastEnd, cs[k]))) \o <<Link(cs[k])>>)
RECURSIVE LinkParts(_, _, _, _, _)
LinkParts(t, cs, k, lastEnd, acc) ==
    IF k > Len(cs)
    THEN IF lastEnd < Len(t) THEN Append(acc, Literal(Slice(t, lastEnd, Len(t)))) ELSE acc
    ELSE LinkParts(t, cs, k + 1, cs[k].end,
                   (IF cs[k].start > lastEnd
                    THEN Append(acc, Literal(Gap(t, lastEnd, cs[k]))) ELSE acc)
                   \o <<Link(cs[k])>>)

\* if (citations.length === 0) return <>{text}</>
NoParts(t) == <<>>
Unlinked(t) == <<Literal(t)>>

LinkedText(t, cs) == IF Len(cs) = 0 THEN Unlinked(t) ELSE LinkParts(t, cs, 1, 0, <<>>)

-----------------------------------------------------------------------------
(* The texts the model renders: up to MaxChunks of these, in any order *)

ChunkBge == <<"B","G","E"," ","1"," ","I"," ","2">>
ChunkSuffix == <<" ","E","."," ","3",".","4">>
ChunkDocketTail == <<"C","_","7","/","2","0","2","4">>
ChunkDigit == <<"5">>
ChunkArticle == <<"A","r","t","."," ","8"," ","O","R">>
ChunkArticleLong ==
    <<"a","r","t",".","8"," ","A","b","s","."," ","2"," ","l","i","t","."," ","a",
      " ","C","s","t",".">>
ChunkSpace == <<" ">>
ChunkLetter == <<"x">>
ChunkDot == <<".">>

Chunks == {ChunkBge, ChunkSuffix, ChunkDocketTail, ChunkDigit, ChunkArticle,
           ChunkArticleLong, ChunkSpace, ChunkLetter, ChunkDot}

-----------------------------------------------------------------------------
(* CitationGraph: the useMemo that builds nodes and links *)

\* a Map as the sequence of its values in insertion order; every value has
\* its key in the field id
MapHas(map, key) == \E k \in 1..Len(map) : map[k].id = key

\* Map.prototype.set: a new key is appended, a known key keeps its place
MapSet(map, value) ==
    IF MapHas(map, value.id)
    THEN [k \in 1..Len(map) |-> IF map[k].id = value.id THEN value ELSE map[k]]
    ELSE Append(map, value)

\* the node of a citation record (isCurrent is left out: falsy)
CitationNode(c) ==
    [id |-> c.id, label |-> c.label, level |-> c.level, date |-> c.date,
     isCurrent |-> FALSE]

\* if (!nodeMap.has(citation.id)) nodeMap.set(citation.id, {...})
AddUnguarded(map, c) == MapSet(map, CitationNode(c))
AddNoNode(map, c) == map
AddOverwriting(map, c) ==
    IF c.id = map[1].id THEN map ELSE MapSet(map, CitationNode(c))
AddCitationNode(map, c) == IF ~MapHas(map, c.id) THEN MapSet(map, CitationNode(c)) ELSE map

\* citations.forEach over the records from the k-th on
RECURSIVE AddCitationNodes(_, _, _)
AddCitationNodes(map, cs, k) ==
    IF k > Len(cs) THEN map
    ELSE AddCitationNodes(AddCitationNode(map, cs[k]), cs, k + 1)

\* the node of the current decision (no date)
CurrentNode(id, label, level) ==
    [id |-> id, label |-> label, level |-> level, date |-> "undefined",
     isCurrent |-> TRUE]

\* the link of a citation record
LinkOutward(id, c) == [source |-> id, target |-> c.id, type |-> c.type]
LinkOf(id, c) ==
    [source |-> IF c.type = "cites" THEN id ELSE c.id,
     target |-> IF c.type = "cites" THEN c.id ELSE id,
     type |-> c.type]

BuildGraph(id, label, level, cs) ==
    [nodes |-> AddCitationNodes(MapSet(<<>>, CurrentNode(id, label, level)), cs, 1),
     links |-> [k \in 1..Len(cs) |-> LinkOf(id, cs[k])]]

-----------------------------------------------------------------------------
(* useForceSimulation.  Numbers are whole: a length is in tenths of a      *)
(* pixel, alpha in ten-millionths, and a quotient is cut off toward zero.  *)
(* width and height are kept in pixels, as the props are.                  *)

\* a / b for b > 0
Quot(a, b) == IF a >= 0 THEN a \div b ELSE -((-a) \div b)

\* the value of a set of one value: what is bound to a name this way is
\* computed once, however often the name is used
Only(S) == CHOOSE v \in S : TRUE

\* Math.sqrt: the largest r in lo..hi with r * r <= n
RECURSIVE Root(_, _, _)
Root(n, lo, hi) ==
    IF lo = hi THEN lo
    ELSE Only({ IF m * m <= n THEN Root(n, m, hi) ELSE Root(n, lo, m - 1) :
                    m \in {(lo + hi + 1) \div 2} })

\* Math.sqrt(dx * dx + dy * dy) || 1
Dist(dx, dy) ==
    Only({ IF d = 0 THEN 10 ELSE d : d \in {Root(dx * dx + dy * dy, 0, 46340)} })

\* a Record<string, ...>: a function on the keys it has
EmptyMap == [i \in {} |-> 0]
Put(map, key, value) ==
    [i \in DOMAIN map \cup {key} |-> IF i = key THEN value ELSE map[i]]

\* const alpha = { value: 1 }, alphaDecay = 0.02, alphaMin = 0.001
AlphaStart == 10000000
AlphaDecayPercent == 2
AlphaMin == 10000

\* alpha in thousandths, as the forces use it
Mille(alpha) == alpha \div 10000

\* centerStrength = 0.01, chargeStrength = -300, linkStrength = 0.05,
\* linkDistance = 120
CenterStrengthPercent == 1
ChargeStrength == -300
LinkStrengthPercent == 5
LinkDistance == 1200

\* the factors of the velocity update, in tenths, and the margin of the clamp
Damping == 6
CurrentDamping == 3
Margin == 400

\* the props' defaults: width = 600, height = 400
DefaultWidth == 600
DefaultHeight == 400

\* Math.cos and Math.sin of i / n of a turn, in thousandths, for the twelfths
\* of a turn
CosMille == <<1000, 866, 500, 0, -500, -866, -1000, -866, -500, 0, 500, 866>>
SinMille == <<0, 500, 866, 1000, 866, 500, 0, -500, -866, -1000, -866, -500>>
Twelfth(i, n) == ((12 * i) \div n) + 1

\* Math.min(width, height) * 0.35
Radius(w, h) == Quot((IF w < h THEN w ELSE h) * 10 * 35, 100)

\* the position a node is seeded at: node i (from 0) of n, j the pair of
\* (Math.random() - 0.5) * 50 it draws
InitialPositionOnCircle(node, i, n, w, h, j) ==
    [x |-> Quot(w * 10, 2) + Quot(CosMille[Twelfth(i, n)] * Radius(w, h), 1000) + j[1],
     y |-> Quot(h * 10, 2) + Quot(SinMille[Twelfth(i, n)] * Radius(w, h), 1000) + j[2]]
InitialPosition(node, i, n, w, h, j) ==
    IF node.isCurrent
    THEN [x |-> Quot(w * 10, 2), y |-> Quot(h * 10, 2)]
    ELSE [x |-> Quot(w * 10, 2) + Quot(CosMille[Twelfth(i, n)] * Radius(w, h), 1000) + j[1],
          y |-> Quot(h * 10, 2) + Quot(SinMille[Twelfth(i, n)] * Radius(w, h), 1000) + j[2]]

\* nodes.forEach((node, i) => { initialPositions[node.id] = ... }) from the
\* k-th node on
RECURSIVE InitialPositions(_, _, _, _, _, _)
InitialPositions(ns, k, w, h, j, acc) ==
    IF k > Len(ns) THEN acc
    ELSE InitialPositions(ns, k + 1, w, h, j,
             Put(acc, ns[k].id,
                 InitialPosition(ns[k], k - 1, Len(ns), w, h,
                                 IF k \in DOMAIN j THEN j[k] ELSE <<0, 0>>)))

\* initialVelocities
InitialVelocities(ns) == [i \in {ns[k].id : k \in 1..Len(ns)} |-> [vx |-> 0, vy |-> 0]]

\* the draws of Math.random of one seeding: a pair for each node that is not
\* the current one
Draws(ns, jitters) == [{k \in 1..Len(ns) : ~ns[k].isCurrent} -> jitters]

\* what one run of the effect closes over: its arguments, the `positions` of
\* the render it belongs to, initialPositions and alpha; ticks counts the
\* frames the run was given, up to MaxTicks
Closure(ns, ls, w, h, captured, j) ==
    [nodes |-> ns, links |-> ls, width |-> w, height |-> h, positions |-> captured,
     initialPositions |-> InitialPositions(ns, 1, w, h, j, EmptyMap),
     alpha |-> AlphaStart, ticks |-> 0]

\* (dx / dist) * force, for both axes
Along(dx, dy, dist, force) == <<Quot(dx * force, dist), Quot(dy * force, dist)>>

\* fx += ...; fy += ...
Added(f, g) == Only({ <<a[1] + b[1], a[2] + b[2]>> : a \in {f}, b \in {g} })

\* the charge force of `other` on the node at p
ChargeOf(p, o, alpha) ==
    Only({ Along(p.x - o.x, p.y - o.y, dist,
                 Quot(ChargeStrength * Mille(alpha), dist * dist)) :
               dist \in {Dist(p.x - o.x, p.y - o.y)} })

\* nodes.forEach((other) => ...) from the k-th node on
RECURSIVE ChargeOn(_, _, _, _, _)
ChargeOn(c, node, np, k, f) ==
    IF k > Len(c.nodes) THEN f
    ELSE IF node.id = c.nodes[k].id \/ c.nodes[k].id \notin DOMAIN np
         THEN ChargeOn(c, node, np, k + 1, f)
         ELSE ChargeOn(c, node, np, k + 1,
                       Added(f, ChargeOf(np[node.id], np[c.nodes[k].id], c.alpha)))

\* the link force of the node at o on the node at p
SpringOf(p, o, alpha) ==
    Only({ Along(o.x - p.x, o.y - p.y, dist,
                 Quot((dist - LinkDistance) * LinkStrengthPercent * Mille(alpha),
                      100000)) :
               dist \in {Dist(o.x - p.x, o.y - p.y)} })

\* links.forEach((link) => ...) from the k-th link on
RECURSIVE SpringOnStops(_, _, _, _, _)
SpringOnStops(c, node, np, k, f) ==
    IF k > Len(c.links) THEN f
    ELSE IF c.links[k].source \notin DOMAIN np \/ c.links[k].target \notin DOMAIN np
         THEN f
         ELSE IF node.id # c.links[k].source /\ node.id # c.links[k].target
              THEN SpringOnStops(c, node, np, k + 1, f)
              ELSE SpringOnStops(c, node, np, k + 1,
                                 Added(f, SpringOf(np[node.id],
                                                   np[IF node.id = c.links[k].source
                                                      THEN c.links[k].target
                                                      ELSE c.links[k].source], c.alpha)))
RECURSIVE SpringOn(_, _, _, _, _)
SpringOn(c, node, np, k, f) ==
    IF k > Len(c.links) THEN f
    ELSE IF \/ (node.id # c.links[k].source /\ node.id # c.links[k].target)
            \/ c.links[k].source \notin DOMAIN np
            \/ c.links[k].target \notin DOMAIN np
         THEN SpringOn(c, node, np, k + 1, f)
         ELSE SpringOn(c, node, np, k + 1,
                       Added(f, SpringOf(np[node.id],
                                         np[IF node.id = c.links[k].source
                                            THEN c.links[k].target
                                            ELSE c.links[k].source], c.alpha)))

\* the center force on the node at p
CenterOf(c, p) ==
    <<Quot((Quot(c.width * 10, 2) - p.x) * CenterStrengthPercent, 100),
      Quot((Quot(c.height * 10, 2) - p.y) * CenterStrengthPercent, 100)>>

\* fx, fy of a node: center, charge and link forces
Force(c, node, np) ==
    SpringOn(c, node, np, 1, ChargeOn(c, node, np, 1, CenterOf(c, np[node.id])))

\* (velocities[node.id]?.vx || 0) * 0.6 + fx, times 0.3 for the current node
Slowed(node, v) == IF node.isCurrent THEN Quot(v * CurrentDamping, 10) ELSE v
Velocity(node, vel, f) ==
    [vx |-> Slowed(node, Quot((IF node.id \in DOMAIN vel THEN vel[node.id].vx ELSE 0)
                                  * Damping, 10) + f[1]),
     vy |-> Slowed(node, Quot((IF node.id \in DOMAIN vel THEN vel[node.id].vy ELSE 0)
                                  * Damping, 10) + f[2])]

\* Math.max(40, Math.min(size - 40, v))
Clamp(size, v) ==
    LET low == IF size * 10 - Margin < v THEN size * 10 - Margin ELSE v
    IN  IF Margin > low THEN Margin ELSE low

\* newPositions[node.id] = { x: clamp(x + vx), y: clamp(y + vy) }
Moved(c, p, v) == [x |-> Clamp(c.width, p.x + v.vx), y |-> Clamp(c.height, p.y + v.vy)]

\* nodes.forEach((node) => ...) of a tick, from the k-th node on, over the
\* working copy np and the velocities of velocitiesRef.current
RECURSIVE TickNodes(_, _, _, _)
SteppedUnwritten(c, k, np, vel, v) ==
    Only({ TickNodes(c, k + 1, np, w) : w \in {Put(vel, c.nodes[k].id, v)} })
Stepped(c, k, np, vel, v) ==
    Only({ TickNodes(c, k + 1, p, w) :
               p \in {Put(np, c.nodes[k].id, Moved(c, np[c.nodes[k].id], v))},
               w \in {Put(vel, c.nodes[k].id, v)} })
TickNodes(c, k, np, vel) ==
    IF k > Len(c.nodes) THEN [positions |-> np, velocities |-> vel]
    ELSE IF c.nodes[k].id \notin DOMAIN np THEN TickNodes(c, k + 1, np, vel)
    ELSE Only({ Stepped(c, k, np, vel, v) :
                    v \in {Velocity(c.nodes[k], vel, Force(c, c.nodes[k], np))} })

\* alpha.value *= 1 - alphaDecay
Undecayed(alpha) == alpha
Decay(alpha) == (alpha * (100 - AlphaDecayPercent)) \div 100

\* requestAnimationFrame: a handle no pending callback has (the handles are
\* positive; one that is pending nowhere is as good as new)
Undefined == 0
Handles(fs) == { f.handle : f \in fs }
NewHandle(fs) == CHOOSE h \in 1..(Cardinality(fs) + 1) :
                     h \notin Handles(fs) /\ \A g \in 1..(h - 1) : g \in Handles(fs)

\* clearTimeout(startTimer)
KeepTimers(ts, r) == ts
ClearTimeout(ts, r) == ts \ {r}

\* if (animationRef.current) cancelAnimationFrame(animationRef.current)
KeepFrames(fs, ref) == fs
CancelFrame(fs, ref) == IF ref # Undefined THEN { f \in fs : f.handle # ref } ELSE fs

\* the closures something can still call: of the current run and of the
\* pending callbacks
Reachable(cl, r, ts, fs) ==
    [k \in (({r} \cup ts \cup { f.run : f \in fs }) \cap DOMAIN cl) |-> cl[k]]

-----------------------------------------------------------------------------
(* The inputs of the model *)

\* the texts the exported helpers are called on by other components
OtherTexts == {ChunkBge, ChunkDigit \o ChunkDocketTail}

ZeroIndex == [k \in Kinds |-> 0]

\* the CitationMatch values citationToSearchQuery is called with
QueryTexts == Chunks \cup {<<>>}
Matches ==
    [text : QueryTexts, type : Kinds, start : {0}, end : {0},
     normalized : {None} \cup {Some(n) : n \in QueryTexts}]

\* the decisions and the citation records of a CitationGraph
Ids == {"X", "A", "B"}
CurrentDecisionLabel == "BGE 150 I 1"
CurrentDecisionLevel == "federal"
Records ==
    { [id |-> i, label |-> "BGE 144 III 93", level |-> "federal",
       date |-> "2018-01-01", type |-> ty] : i \in Ids, ty \in {"cites", "cited_by"} }
    \cup
    { [id |-> i, label |-> "OGer ZH LA180001", level |-> "cantonal",
       date |-> "undefined", type |-> ty] : i \in Ids, ty \in {"cites", "cited_by"} }

\* the citation lists, the sizes and the draws of Math.random the
\* simulation is run with
RecordA ==
    [id |-> "A", label |-> "BGE 144 III 93", level |-> "federal",
     date |-> "2018-01-01", type |-> "cites"]
RecordSelf == [RecordA EXCEPT !.id = "X"]
RecordB == [RecordA EXCEPT !.id = "B"]
Wide ==
    [lists |-> {<<>>, <<RecordA>>, <<RecordSelf>>, <<RecordB, RecordA>>},
     sizes |-> {<<DefaultWidth, DefaultHeight>>, <<200, 100>>},
     jitters |-> {<<-250, -250>>, <<249, 249>>}]
Narrow ==
    [lists |-> {<<>>, <<RecordA>>},
     sizes |-> {<<DefaultWidth, DefaultHeight>>},
     jitters |-> {<<0, 0>>}]

-----------------------------------------------------------------------------
(* The linker: LinkedText is rendered with a text *)

Rendered(t, x) ==
    /\ text' = t
    /\ citations' = x.result
    /\ lastIndex' = x.lastIndex
    /\ entered' = (lastIndex # ZeroIndex)
    /\ parts' = LinkedText(t, x.result)

RenderWith(t) == Rendered(t, ExtractCitations(t, lastIndex))

\* a render with a text one chunk longer, of at most max chunks
RenderLonger(c, max) ==
    /\ chunks < max
    /\ chunks' = chunks + 1
    /\ RenderWith(text \o c)
    /\ UNCHANGED <<widened, queryVars, graphVars, simVars>>

Render(c) == RenderLonger(c, MaxChunks)

\* the first render of a CitationGraph and the first run of the effect
InitSimulation(env) ==
    /\ mounted = TRUE
    /\ \E d \in env.sizes : \E j \in Draws(nodes, env.jitters) :
         /\ width = d[1]
         /\ height = d[2]
         /\ closures = (1 :> Closure(nodes, links, d[1], d[2], EmptyMap, j))
    /\ positions = closures[1].initialPositions
    /\ velocitiesRef = InitialVelocities(nodes)
    /\ animationRef = Undefined
    /\ run = 1
    /\ timers = {1}
    /\ frames = {}
    /\ cleaned = "none"

InitGraphOf(lists) ==
    /\ currentDecisionId = "X"
    /\ records \in lists
    /\ nodes = BuildGraph(currentDecisionId, CurrentDecisionLabel, CurrentDecisionLevel,
                          records).nodes
    /\ links = BuildGraph(currentDecisionId, CurrentDecisionLabel, CurrentDecisionLevel,
                          records).links

InitLinker ==
    /\ text = <<>>
    /\ lastIndex = ZeroIndex
    /\ entered = FALSE
    /\ citations = <<>>
    /\ parts = LinkedText(<<>>, <<>>)
    /\ chunks = 0
    /\ widened = FALSE

\* a CitationLink as mounted: useState(false), useRef(undefined)
InitLink ==
    /\ linkMounted = TRUE
    /\ showPreview = FALSE
    /\ timeoutRef = Undefined
    /\ hoverTimers = {}
    /\ enters = 0
    /\ over = FALSE
    /\ hovered = <<>>

InitQuery ==
    /\ arg = [text |-> <<>>, type |-> "article", start |-> 0, end |-> 0, normalized |-> None]
    /\ query = <<>>
    /\ InitLink

InitGraph(ids) ==
    /\ currentDecisionId \in ids
    /\ records = <<>>
    /\ nodes = BuildGraph(currentDecisionId, CurrentDecisionLabel, CurrentDecisionLevel,
                          <<>>).nodes
    /\ links = <<>>

Init == InitLinker /\ InitQuery /\ InitGraph({"X"}) /\ InitSimulation(Narrow)

Next == \E c \in Chunks : Render(c)

Spec == Init /\ [][Next]_vars

-----------------------------------------------------------------------------
(* The regexes are module-level objects: other components call the         *)
(* exported helpers between two renders                                    *)

RenderShared(c) == RenderLonger(c, MaxSharedChunks)

\* a render with the same text again
ReRender ==
    /\ RenderWith(text)
    /\ UNCHANGED <<chunks, widened, queryVars, graphVars, simVars>>

CallHasCitations(o) ==
    /\ lastIndex' = HasCitations(o, lastIndex).lastIndex
    /\ UNCHANGED <<text, entered, citations, parts, chunks, widened, queryVars, graphVars, simVars>>

CallParseBgeReference(o) ==
    /\ lastIndex' = ParseBgeReference(o, lastIndex).lastIndex
    /\ UNCHANGED <<text, entered, citations, parts, chunks, widened, queryVars, graphVars, simVars>>

CallParseDocketNumber(o) ==
    /\ lastIndex' = ParseDocketNumber(o, lastIndex).lastIndex
    /\ UNCHANGED <<text, entered, citations, parts, chunks, widened, queryVars, graphVars, simVars>>

NextShared ==
    \/ \E c \in Chunks : RenderShared(c)
    \/ ReRender
    \/ \E o \in OtherTexts : CallHasCitations(o)
    \/ \E o \in OtherTexts : CallParseBgeReference(o)
    \/ \E o \in OtherTexts : CallParseDocketNumber(o)

SpecShared == Init /\ [][NextShared]_vars

-----------------------------------------------------------------------------
(* The same text written with more whitespace *)

RenderFormat(c) ==
    /\ ~widened
    /\ RenderLonger(c, MaxFormatChunks)

\* a render with the text written with one more blank in the run of
\* whitespace that begins at offset p
Reformat(p) ==
    /\ ~widened
    /\ text[p + 1] \in Space
    /\ IF p = 0 THEN TRUE ELSE text[p] \notin Space
    /\ widened' = TRUE
    /\ RenderWith(Slice(text, 0, p) \o Sp \o Slice(text, p, Len(text)))
    /\ UNCHANGED <<chunks, queryVars, graphVars, simVars>>

NextFormat ==
    \/ \E c \in Chunks : RenderFormat(c)
    \/ \E p \in 0..(Len(text) - 1) : Reformat(p)

SpecFormat == Init /\ [][NextFormat]_vars

-----------------------------------------------------------------------------
(* A click on a citation link: onClick(citationToSearchQuery(citation)) *)

Query(m) ==
    /\ arg' = m
    /\ query' = CitationToSearchQuery(m)
    /\ UNCHANGED <<hoverVars, linkerVars, graphVars, simVars>>

NextQuery == \E m \in Matches : Query(m)

SpecQuery == Init /\ [][NextQuery]_vars

-----------------------------------------------------------------------------
(* CitationLink: the mouse over the link, the hover timer, the click.  A    *)
(* timer is named by the mouse-enter that set it.                           *)

\* if (timeoutRef.current) clearTimeout(timeoutRef.current)
KeepHover(ts, ref) == ts
ClearHover(ts, ref) == IF ref # Undefined THEN ts \ {ref} ELSE ts

\* handleMouseEnter
MouseEnter ==
    /\ linkMounted
    /\ enters < MaxEnters
    /\ enters' = enters + 1
    /\ hoverTimers' = ClearHover(hoverTimers, timeoutRef) \cup {enters + 1}
    /\ timeoutRef' = enters + 1
    /\ over' = TRUE
    /\ UNCHANGED <<arg, query, linkMounted, showPreview, hovered,
                   linkerVars, graphVars, simVars>>

\* handleMouseLeave
MouseLeave ==
    /\ linkMounted
    /\ hoverTimers' = ClearHover(hoverTimers, timeoutRef)
    /\ showPreview' = FALSE
    /\ over' = FALSE
    /\ UNCHANGED <<arg, query, linkMounted, timeoutRef, enters, hovered,
                   linkerVars, graphVars, simVars>>

\* the callback of setTimeout(..., 500): if (linkRef.current) { ...
\* setShowPreview(true); onHover?.(citationToSearchQuery(citation)) }
HoverTimerFires ==
    \E h \in hoverTimers :
        /\ hoverTimers' = hoverTimers \ {h}
        /\ showPreview' = (linkMounted \/ showPreview)
        /\ hovered' = IF linkMounted THEN Append(hovered, CitationToSearchQuery(arg))
                                     ELSE hovered
        /\ UNCHANGED <<arg, query, linkMounted, timeoutRef, enters, over,
                       linkerVars, graphVars, simVars>>

\* handleClick
Click ==
    /\ linkMounted
    /\ query' = CitationToSearchQuery(arg)
    /\ UNCHANGED <<arg, hoverVars, linkerVars, graphVars, simVars>>

\* the cleanup of useEffect(() => ..., []): the link is unmounted
UnmountLink ==
    /\ linkMounted
    /\ linkMounted' = FALSE
    /\ hoverTimers' = ClearHover(hoverTimers, timeoutRef)
    /\ over' = FALSE
    /\ UNCHANGED <<arg, query, showPreview, timeoutRef, enters, hovered,
                   linkerVars, graphVars, simVars>>

\* a link of any citation
InitAnyLink ==
    /\ arg \in Matches
    /\ query = <<>>
    /\ InitLink

InitHover == InitLinker /\ InitAnyLink /\ InitGraph({"X"}) /\ InitSimulation(Narrow)

NextHover == MouseEnter \/ MouseLeave \/ HoverTimerFires \/ Click \/ UnmountLink

SpecHover == InitHover /\ [][NextHover]_vars

-----------------------------------------------------------------------------
(* CitationGraph is rendered with one more citation record *)

Rebuilt(cs, g) ==
    /\ records' = cs
    /\ nodes' = g.nodes
    /\ links' = g.links

AddRecord(c) ==
    /\ Len(records) < MaxRecords
    /\ Rebuilt(Append(records, c),
               BuildGraph(currentDecisionId, CurrentDecisionLabel, CurrentDecisionLevel,
                          Append(records, c)))
    /\ UNCHANGED <<currentDecisionId, linkerVars, queryVars, simVars>>

NextGraph == \E c \in Records : AddRecord(c)

InitAnyDecision == InitLinker /\ InitQuery /\ InitGraph(Ids) /\ InitSimulation(Narrow)

SpecGraph == InitAnyDecision /\ [][NextGraph]_vars

-----------------------------------------------------------------------------
(* useForceSimulation: the effect, its start timer, its ticks, its cleanup *)

\* what of the current run is pending
Pending ==
    IF run \in timers THEN "delay"
    ELSE IF \E f \in frames : f.run = run THEN "frame" ELSE "rest"

\* the cleanup of the current run, and setTimeout by run r
NoCleanup(started) ==
    /\ cleaned' = Pending
    /\ timers' = timers \cup started
    /\ frames' = frames
Cleanup(started) ==
    /\ cleaned' = Pending
    /\ timers' = ClearTimeout(timers, run) \cup started
    /\ frames' = CancelFrame(frames, animationRef)

\* the body of the effect in a render with graph g and size d, as run r:
\* seeding, setPositions(initialPositions), the velocities
EffectRuns(r, g, d, j) ==
    /\ run' = r
    /\ width' = d[1]
    /\ height' = d[2]
    /\ closures' = Put(Reachable(closures, r, timers', frames'), r,
                       Closure(g.nodes, g.links, d[1], d[2], positions, j))
    /\ positions' = InitialPositions(g.nodes, 1, d[1], d[2], j, EmptyMap)
    /\ velocitiesRef' = InitialVelocities(g.nodes)

\* the props change: the graph is rebuilt, the effect cleaned up and run again
Changed(cs, g, d, j) ==
    /\ Rebuilt(cs, g)
    /\ Cleanup({run + 1})
    /\ EffectRuns(run + 1, g, d, j)

ChangeProps(env) ==
    /\ mounted
    /\ run < MaxRuns
    /\ \E cs \in env.lists, d \in env.sizes :
         \E j \in Draws(BuildGraph(currentDecisionId, CurrentDecisionLabel,
                                   CurrentDecisionLevel, cs).nodes, env.jitters) :
             Changed(cs, BuildGraph(currentDecisionId, CurrentDecisionLabel,
                                    CurrentDecisionLevel, cs), d, j)
    /\ UNCHANGED <<currentDecisionId, mounted, animationRef, linkerVars, queryVars>>

Unmount ==
    /\ mounted
    /\ mounted' = FALSE
    /\ Cleanup({})
    /\ closures' = Reachable(closures, run, timers', frames')
    /\ UNCHANGED <<width, height, positions, velocitiesRef, animationRef, run,
                   graphVars, linkerVars, queryVars>>

\* setPositions: nothing is set once the component is unmounted
SetPositions(p) == positions' = IF mounted THEN p ELSE positions

\* requestAnimationFrame(tick) by run r
RequestAnimationFrame(fs, r) ==
    /\ animationRef' = NewHandle(fs)
    /\ frames' = fs \cup {[handle |-> NewHandle(fs), run |-> r]}

\* the start timer of run r fires
TimerFires ==
    \E r \in timers :
        /\ timers' = timers \ {r}
        /\ SetPositions(closures[r].initialPositions)
        /\ RequestAnimationFrame(frames, r)
        /\ UNCHANGED <<width, height, mounted, velocitiesRef, run, closures, cleaned,
                       graphVars, linkerVars, queryVars>>

\* one more frame given to a run
Counted(c) == [c EXCEPT !.ticks = IF @ < MaxTicks THEN @ + 1 ELSE @]

\* tick returns at once
TickReturns(f) ==
    /\ frames' = frames \ {f}
    /\ closures' = Reachable([closures EXCEPT ![f.run] = Counted(@)], run, timers,
                             frames \ {f})
    /\ UNCHANGED <<positions, velocitiesRef, animationRef>>

\* tick computes t, publishes it, decays alpha and asks for the next frame
TickComputes(f, t) ==
    /\ SetPositions(t.positions)
    /\ velocitiesRef' = t.velocities
    /\ closures' = [closures EXCEPT ![f.run] = Counted([@ EXCEPT !.alpha = Decay(@)])]
    /\ RequestAnimationFrame(frames \ {f}, f.run)

\* the animation-frame callback f runs: tick of the run that asked for it
Tick(f) ==
    /\ IF closures[f.run].alpha < AlphaMin
       THEN TickReturns(f)
       ELSE TickComputes(f, TickNodes(closures[f.run], 1, closures[f.run].positions,
                                       velocitiesRef))
    /\ UNCHANGED <<width, height, mounted, run, timers, cleaned,
                   graphVars, linkerVars, queryVars>>

\* the host gives each run at most MaxTicks frames
FrameWithin == \E f \in frames : closures[f.run].ticks < MaxTicks /\ Tick(f)

InitSim == InitLinker /\ InitQuery /\ InitGraphOf(Wide.lists) /\ InitSimulation(Wide)

NextSim ==
    \/ ChangeProps(Wide)
    \/ Unmount
    \/ TimerFires
    \/ FrameWithin

SpecSim == InitSim /\ [][NextSim]_vars

-----------------------------------------------------------------------------
(* The simulation left to run: the host gives every frame asked for, and   *)
(* the props change while a run is young or once it has come to rest       *)

Frame == \E f \in frames : Tick(f)

ChangeSettling ==
    /\ closures[run].ticks < MaxTicks \/ closures[run].alpha < AlphaMin
    /\ ChangeProps(Narrow)

InitSettle == InitLinker /\ InitQuery /\ InitGraphOf(Narrow.lists) /\ InitSimulation(Narrow)

NextSettle ==
    \/ ChangeSettling
    \/ Unmount
    \/ TimerFires
    \/ Frame

SpecSettle ==
    InitSettle /\ [][NextSettle]_vars /\ WF_vars(TimerFires) /\ WF_vars(Frame)

-----------------------------------------------------------------------------
(* Properties of the recognizer and the linker *)

\* the values of parts k.. one after the other
RECURSIVE Concat(_, _)
Concat(ps, k) == IF k > Len(ps) THEN <<>> ELSE ps[k].value \o Concat(ps, k + 1)

\* C1: the underlying texts of the parts LinkedText emits, concatenated in
\* order, are the input text
C1_RoundTrip == Concat(parts, 1) = text

\* a citation between a leading and a trailing literal
C1_Witness ==
    /\ Len(parts) >= 3
    /\ parts[1].kind = "literal"
    /\ parts[Len(parts)].kind = "literal"
    /\ \E k \in 1..Len(parts) : parts[k].kind = "citation"

\* C2: the returned list is sorted by start and no match begins before the
\* one before it ends
C2_NonOverlap ==
    \A k \in 1..(Len(citations) - 1) :
        /\ citations[k].start <= citations[k + 1].start
        /\ citations[k].end <= citations[k + 1].start

\* two matches of different kinds next to each other
C2_Witness ==
    \E k \in 1..(Len(citations) - 1) : citations[k].type # citations[k + 1].type

\* every match of the three patterns in t, whatever the others are
Candidates(t) ==
    { ToCitation(kind, t, MatchAt(kind, t, i)) :
        <<kind, i>> \in { ki \in Kinds \X (0..Len(t)) : MatchAt(ki[1], t, ki[2]) # Null } }

Returned == { citations[k] : k \in 1..Len(citations) }

\* a returned match other than c that starts no later than c and ends after
\* c starts
Shadowed(c) ==
    \E m \in Returned : m # c /\ m.start <= c.start /\ c.start < m.end

\* C3: the returned matches are candidates, and a candidate is returned
\* exactly if no returned match that starts no later covers its start; the
\* kinds play no part
C3_FirstMatchWins ==
    /\ Returned \subseteq Candidates(text)
    /\ \A c \in Candidates(text) : (c \in Returned) <=> ~Shadowed(c)

\* a candidate was discarded, and one of another kind returned
C3_Witness ==
    \E c \in Candidates(text) :
        c \notin Returned /\ \E m \in Returned : m.type # c.type

\* C4: every returned match lies in the text and carries the text it spans
C4_Spans ==
    \A k \in 1..Len(citations) :
        /\ 0 <= citations[k].start
        /\ citations[k].start < citations[k].end
        /\ citations[k].end <= Len(text)
        /\ citations[k].text = Slice(text, citations[k].start, citations[k].end)

\* a match with text before it and after it
C4_Witness ==
    \E k \in 1..Len(citations) :
        citations[k].start > 0 /\ citations[k].end < Len(text)

\* C5: what a render got from extractCitations is what extractCitations
\* returns for the text with all three regexes at lastIndex 0, whatever the
\* helpers left in them before
C5_Deterministic == citations = ExtractCitations(text, ZeroIndex).result

\* a render that found the regexes advanced by other calls, and found matches
C5_Witness == entered /\ Len(citations) >= 1

\* no pattern matches anywhere in t
NoFamilyMatches(t) ==
    \A kind \in Kinds : \A i \in 0..Len(t) : MatchAt(kind, t, i) = Null

\* C6: for the empty text and for a text no pattern matches, the result is
\* empty and LinkedText emits the text as one literal
C6_EmptyResult ==
    /\ NoFamilyMatches(text) => citations = <<>>
    /\ citations = <<>> =>
         /\ Len(parts) = 1
         /\ parts[1].kind = "literal"
         /\ parts[1].value = text

\* a text with digits in which nothing matches
C6_Witness ==
    /\ NoFamilyMatches(text)
    /\ citations = <<>>
    /\ \E k \in 1..Len(text) : text[k] \in Digit

\* where the i-th citation segment is in ps
SegmentOf(ps, i) ==
    CHOOSE p \in 1..Len(ps) :
        /\ ps[p].kind = "citation"
        /\ Cardinality({ q \in 1..p : ps[q].kind = "citation" }) = i

\* where the text before the i-th match begins
GapStart(cs, i) == IF i = 1 THEN 0 ELSE cs[i - 1].end

\* C25: of a text with a match, the parts have one citation segment for each
\* match, in the order of the matches; no literal segment is empty and no two
\* are next to each other; a literal comes before a citation segment exactly
\* if there is text between the match and the one before it, and after the
\* last one exactly if the last match ends before the text does
C25_SegmentStructure ==
    Len(citations) >= 1 =>
        /\ Cardinality({ p \in 1..Len(parts) : parts[p].kind = "citation" }) = Len(citations)
        /\ \A i \in 1..Len(citations) :
              /\ parts[SegmentOf(parts, i)].citation = citations[i]
              /\ (SegmentOf(parts, i) > 1 /\ parts[SegmentOf(parts, i) - 1].kind = "literal")
                    <=> citations[i].start > GapStart(citations, i)
        /\ \A p \in 1..Len(parts) : parts[p].kind = "literal" => parts[p].value # <<>>
        /\ \A p \in 1..(Len(parts) - 1) :
              ~(parts[p].kind = "literal" /\ parts[p + 1].kind = "literal")
        /\ parts[Len(parts)].kind = "literal" <=> citations[Len(citations)].end < Len(text)

\* a first match at the start of the text and a second one after a gap
C25_Witness ==
    /\ Len(citations) >= 2
    /\ parts[1].kind = "citation"
    /\ parts[2].kind = "literal"
    /\ parts[3].kind = "citation"

-----------------------------------------------------------------------------
(* Properties of the search query *)

\* C7: citationToSearchQuery returns normalized whenever the field is present,
\* the empty string included, and text only when it is absent
C7_NormalizedIfPresent ==
    /\ arg.normalized # None => query = arg.normalized[1]
    /\ arg.normalized = None => query = arg.text

\* the queries of the matches of cs whose kind is in kinds, in order
RECURSIVE QueriesOf(_, _, _)
QueriesOf(cs, kinds, k) ==
    IF k > Len(cs) THEN <<>>
    ELSE (IF cs[k].type \in kinds THEN <<CitationToSearchQuery(cs[k])>> ELSE <<>>)
         \o QueriesOf(cs, kinds, k + 1)

\* C8 as claimed: writing the text with more whitespace leaves the query of
\* every match as it was
C8_AnyKindStable ==
    [][(~widened /\ widened') =>
         QueriesOf(citations', Kinds, 1) = QueriesOf(citations, Kinds, 1)]_vars

\* C8 as amended: writing the text with more whitespace leaves the queries of
\* the neutral-reference and docket matches as they were
C8_NormalizedKindsStable ==
    [][(~widened /\ widened') =>
         QueriesOf(citations', {"bge", "docket"}, 1)
             = QueriesOf(citations, {"bge", "docket"}, 1)]_vars

\* the words of s from offset k on: the runs of characters that are not
\* whitespace; cur is the word being read
RECURSIVE WordsOf(_, _, _)
WordsOf(s, k, cur) ==
    IF k > Len(s) THEN (IF cur = <<>> THEN <<>> ELSE <<cur>>)
    ELSE IF s[k] \in Space
         THEN (IF cur = <<>> THEN <<>> ELSE <<cur>>) \o WordsOf(s, k + 1, <<>>)
         ELSE WordsOf(s, k + 1, Append(cur, s[k]))

\* a neutral reference that was widened: four words, more than single blanks
C8_Witness ==
    /\ widened
    /\ \E k \in 1..Len(citations) :
         /\ citations[k].type = "bge"
         /\ Len(WordsOf(citations[k].text, 1, <<>>)) = 4
         /\ citations[k].text # CitationToSearchQuery(citations[k])

\* C9: normalized is, for a neutral reference, the first four words of the
\* matched text (marker, volume, part, page) joined by single blanks; for a
\* docket number, the matched text; for a statutory article it is absent
C9_NormalizedForms ==
    \A k \in 1..Len(citations) :
        LET c == citations[k]
            w == WordsOf(c.text, 1, <<>>)
        IN  CASE c.type = "bge" ->
                   /\ Len(w) >= 4
                   /\ c.normalized = <<w[1] \o <<" ">> \o w[2] \o <<" ">> \o w[3]
                                        \o <<" ">> \o w[4]>>
              [] c.type = "docket" -> c.normalized = <<c.text>>
              [] c.type = "article" -> c.normalized = <<>>

\* a neutral reference with a paragraph suffix, in the text and not in normalized
C9_Witness ==
    \E k \in 1..Len(citations) :
        /\ citations[k].type = "bge"
        /\ Len(WordsOf(citations[k].text, 1, <<>>)) > 4
        /\ Len(citations[k].normalized[1]) < Len(citations[k].text)

-----------------------------------------------------------------------------
(* Properties of the graph *)

GraphIds == {currentDecisionId} \cup { records[k].id : k \in 1..Len(records) }

\* C10: one node for each id among the current decision and the records, and
\* one node marked isCurrent, that of the current decision
C10_NodeUniqueness ==
    /\ \A k \in 1..Len(nodes) : nodes[k].id \in GraphIds
    /\ \A i \in GraphIds : Cardinality({k \in 1..Len(nodes) : nodes[k].id = i}) = 1
    /\ \A k \in 1..Len(nodes) : nodes[k].isCurrent <=> nodes[k].id = currentDecisionId

\* records with a repeated id and a record with the id of the current decision
C10_Witness ==
    /\ \E j, k \in 1..Len(records) :
         j < k /\ records[j].id = records[k].id /\ records[j].id # currentDecisionId
    /\ \E k \in 1..Len(records) : records[k].id = currentDecisionId

\* C11: no link has the same source and target, and a record with the id of
\* the current decision yields no link
C11_NoSelfEdge ==
    /\ \A k \in 1..Len(links) : links[k].source # links[k].target
    /\ Len(links) = Cardinality({k \in 1..Len(records) : records[k].id # currentDecisionId})

\* C12: one link per record, in record order: from the current decision to
\* the record's id for "cites", the other way for "cited_by", with the
\* record's type
C12_OneEdgePerRecord ==
    /\ Len(links) = Len(records)
    /\ \A k \in 1..Len(records) :
         /\ links[k].type = records[k].type
         /\ records[k].type = "cites" =>
               links[k].source = currentDecisionId /\ links[k].target = records[k].id
         /\ records[k].type = "cited_by" =>
               links[k].source = records[k].id /\ links[k].target = currentDecisionId

\* two records with one id and different types, and their two links
C12_Witness ==
    \E j, k \in 1..Len(records) :
        /\ j < k
        /\ records[j].id = records[k].id
        /\ records[j].type # records[k].type
        /\ links[j] # links[k]

NodeIds == { nodes[k].id : k \in 1..Len(nodes) }

\* C13: the source and the target of every link are ids of nodes
C13_EndpointsExist ==
    \A k \in 1..Len(links) : links[k].source \in NodeIds /\ links[k].target \in NodeIds

\* links in both directions between the current decision and two others
C13_Witness ==
    /\ Cardinality(NodeIds) = 3
    /\ \E j, k \in 1..Len(links) :
         links[j].source = currentDecisionId /\ links[k].target = currentDecisionId

\* the first record with id i
FirstRecord(i) ==
    records[CHOOSE k \in 1..Len(records) :
                /\ records[k].id = i
                /\ \A j \in 1..(k - 1) : records[j].id # i]

\* C14: the node of an id other than the current decision's has the label,
\* level and date of the first record with that id; the node of the current
\* decision has the label and level of the props and is marked isCurrent
C14_FirstOccurrenceWins ==
    \A k \in 1..Len(nodes) :
        IF nodes[k].id = currentDecisionId
        THEN /\ nodes[k].label = CurrentDecisionLabel
             /\ nodes[k].level = CurrentDecisionLevel
             /\ nodes[k].isCurrent
        ELSE /\ nodes[k].label = FirstRecord(nodes[k].id).label
             /\ nodes[k].level = FirstRecord(nodes[k].id).level
             /\ nodes[k].date = FirstRecord(nodes[k].id).date

\* records with one id and different labels, and a later record with the id
\* of the current decision and another label
C14_Witness ==
    /\ \E j, k \in 1..Len(records) :
         /\ j < k
         /\ records[j].id = records[k].id
         /\ records[j].id # currentDecisionId
         /\ records[j].label # records[k].label
    /\ \E k \in 1..Len(records) : records[k].id = currentDecisionId

-----------------------------------------------------------------------------
(* Properties of the simulation *)

\* the closure of the current run
Current == closures[run]

\* C15: a run of the effect that is not cleaned up comes to alpha < alphaMin;
\* a tick that changes alpha lowers it; and once alpha < alphaMin nothing
\* changes positions, velocities or alpha while the run lasts
C15_Convergence ==
    /\ \A r \in 1..MaxRuns :
         (mounted /\ run = r) ~> (~mounted \/ run # r \/ Current.alpha < AlphaMin)
    /\ [][(mounted' /\ run' = run) =>
            /\ Current'.alpha <= Current.alpha
            /\ Current.alpha < AlphaMin =>
                 /\ positions' = positions
                 /\ velocitiesRef' = velocitiesRef
                 /\ Current'.alpha = Current.alpha]_vars

\* a run whose ticks moved a node has come to rest
C15_Witness ==
    /\ mounted
    /\ Current.alpha < AlphaMin
    /\ frames = {}
    /\ "A" \in DOMAIN positions
    /\ positions # Current.initialPositions

\* C16: every position of the position map is within the margin of the
\* canvas, from the seeding on
C16_Contained ==
    mounted =>
        \A i \in DOMAIN positions :
            /\ Margin <= positions[i].x
            /\ positions[i].x <= width * 10 - Margin
            /\ Margin <= positions[i].y
            /\ positions[i].y <= height * 10 - Margin

\* C17: every pending start timer and every pending animation-frame callback
\* belongs to the current run of a mounted component: nothing of a run that
\* was cleaned up can run
C17_NoTickAfterDisposal ==
    /\ \A r \in timers : mounted /\ r = run
    /\ \A f \in frames : mounted /\ f.run = run

\* the component was unmounted while a frame callback was pending
C17_Witness == ~mounted /\ cleaned = "frame" /\ run > 1

\* C18: no animation-frame callback is pending for a run whose alpha is
\* below alphaMin
C18_NoFrameBelowThreshold == \A f \in frames : closures[f.run].alpha >= AlphaMin

\* C19: with the current node alone and no links, the position map maps the
\* node to the middle of the canvas
C19_SingleNodeCentred ==
    (mounted /\ Len(nodes) = 1 /\ links = <<>>) =>
        positions = (nodes[1].id :> [x |-> Quot(width * 10, 2), y |-> Quot(height * 10, 2)])

\* C20: after a change of the props the run begins with the fresh seed
\* published, no velocity and alpha at its start, and the positions its ticks
\* read are the fresh seed
C20_FreshRestart ==
    (mounted /\ run > 1) =>
        /\ Current.positions = Current.initialPositions
        /\ Current.ticks = 0 /\ run \in timers =>
             /\ positions = Current.initialPositions
             /\ \A i \in DOMAIN velocitiesRef :
                  velocitiesRef[i].vx = 0 /\ velocitiesRef[i].vy = 0
             /\ Current.alpha = AlphaStart

\* whether both ends of a link have a position in the map a tick of c works on
Known(c, link) == link.source \in DOMAIN c.positions /\ link.target \in DOMAIN c.positions
UnknownEdge(c) == \E k \in 1..Len(c.links) : ~Known(c, c.links[k])
KnownEdges(c) == [c EXCEPT !.links = SelectSeq(@, LAMBDA link : Known(c, link))]

\* the runs that compute a tick in this step
Ticking == { r \in DOMAIN closures \cap DOMAIN closures' :
               closures'[r].alpha # closures[r].alpha }

Phase ==
    IF ~mounted THEN "Idle"
    ELSE IF run \in timers THEN "Initializing"
    ELSE IF Current.alpha < AlphaMin THEN "Converged"
    ELSE "Running"

\* C22: while the start timer of the run is pending the view is mounted and
\* shows the seeded positions; the phase changes only from Initializing to
\* Running, from Running to Converged, to Idle on teardown, and on a change
\* of the inputs to the Initializing of the next run; a tick is computed only
\* by the current run, in Running, and leaves it in Running or Converged
C22_Lifecycle ==
    [][/\ Phase = "Initializing" => positions = Current.initialPositions
       /\ (Phase' # Phase \/ run' # run) =>
               \/ Phase # "Idle" /\ Phase' = "Idle" /\ run' = run
               \/ Phase # "Idle" /\ Phase' = "Initializing" /\ run' = run + 1
               \/ Phase = "Initializing" /\ Phase' = "Running" /\ run' = run
               \/ Phase = "Running" /\ Phase' = "Converged" /\ run' = run
       /\ \A r \in Ticking :
               /\ r = run /\ run' = run
               /\ Phase = "Running"
               /\ Phase' \in {"Running", "Converged"}]_vars

\* the view of a second run torn down after the run came to rest
C22_Witness == Phase = "Idle" /\ cleaned = "rest" /\ Current.alpha < AlphaMin /\ run > 1

\* C27: at most one callback of the simulation is pending, the start timer
\* or one animation frame, and it is one of the current run of a mounted view
C27_SingleMutator ==
    /\ Cardinality(timers) + Cardinality(frames) <= 1
    /\ \A r \in timers \cup { f.run : f \in frames } : r = run /\ mounted

\* the start timer of a run pending after the frame of the run before it was
\* cancelled
C27_Witness == mounted /\ run > 1 /\ cleaned = "frame" /\ timers = {run} /\ frames = {}

\* C23: a tick of the current run moves each node from the position it had
\* before the tick, the one the tick before produced or the seeded one, by
\* its velocity after the tick, and clamps
C23_Cumulative ==
    [][\A r \in Ticking :
          r = run =>
              \A i \in DOMAIN positions \cap DOMAIN positions' :
                  positions'[i] = Moved(closures[r], positions[i], velocitiesRef'[i])]_vars

\* how far a is from b
Off(a, b) == IF a < b THEN b - a ELSE a - b

\* the point of the k-th node on the circle around the centre of the canvas
CirclePoint(k) ==
    [x |-> Quot(width * 10, 2)
             + Quot(CosMille[Twelfth(k - 1, Len(nodes))] * Radius(width, height), 1000),
     y |-> Quot(height * 10, 2)
             + Quot(SinMille[Twelfth(k - 1, Len(nodes))] * Radius(width, height), 1000)]

\* C24: while the start timer of a run is pending, the published positions
\* are the seeded ones: the current node is at (width/2, height/2) and each
\* other node within 25 of its point on the circle, on both axes; every node
\* has velocity (0, 0) and alpha is 1
C24_InitialState ==
    (mounted /\ run \in timers) =>
        /\ positions = Current.initialPositions
        /\ DOMAIN positions = NodeIds
        /\ \A k \in 1..Len(nodes) :
              IF nodes[k].isCurrent
              THEN positions[nodes[k].id] =
                       [x |-> Quot(width * 10, 2), y |-> Quot(height * 10, 2)]
              ELSE /\ Off(positions[nodes[k].id].x, CirclePoint(k).x) <= 250
                   /\ Off(positions[nodes[k].id].y, CirclePoint(k).y) <= 250
        /\ velocitiesRef = [i \in NodeIds |-> [vx |-> 0, vy |-> 0]]
        /\ Current.alpha = AlphaStart

\* a later run seeded with three nodes after the run before it had moved them
C24_Witness ==
    /\ mounted /\ run > 1 /\ run \in timers
    /\ Len(nodes) = 3
    /\ cleaned = "frame"
    /\ \E i \in DOMAIN Current.positions \cap DOMAIN positions :
          Current.positions[i] # positions[i]

\* C26: a run started with the nodes, links, width and height of the run
\* before it, while that run still shows its seeded positions, seeds the same
\* positions
C26_Reproducible ==
    [][(/\ mounted /\ run' = run + 1
        /\ run \in timers
        /\ nodes' = nodes /\ links' = links /\ width' = width /\ height' = height)
          => Current'.initialPositions = Current.initialPositions]_vars

\* C28: the published position map has an entry for each node of the
\* current list and no other
C28_KeysAreNodes == mounted => DOMAIN positions = NodeIds

\* the map the k-th node of c finds in a tick: the positions this tick has
\* produced for the nodes before it in the list, the old ones for the others
Found(c, k) ==
    [i \in DOMAIN c.positions |->
        IF \E m \in 1..(k - 1) : c.nodes[m].id = i THEN positions'[i] ELSE c.positions[i]]

\* C30: in a tick, the forces on a node are those of the map in which the
\* nodes before it in the list have their new positions and the others their
\* old ones, and its new position is its old one moved by its new velocity
C30_Sequential ==
    [][\A r \in Ticking :
          \A k \in 1..Len(closures[r].nodes) :
              closures[r].nodes[k].id \in DOMAIN closures[r].positions =>
                  /\ velocitiesRef'[closures[r].nodes[k].id] =
                        Velocity(closures[r].nodes[k], velocitiesRef,
                                 Force(closures[r], closures[r].nodes[k],
                                       Found(closures[r], k)))
                  /\ positions'[closures[r].nodes[k].id] =
                        Moved(closures[r],
                              closures[r].positions[closures[r].nodes[k].id],
                              velocitiesRef'[closures[r].nodes[k].id])]_vars

\* a run has ticked on a map with the positions of three nodes, and moved
\* the last of them
C30_Witness ==
    /\ mounted
    /\ Current.ticks >= 1
    /\ Len(Current.nodes) = 3
    /\ \A k \in 1..3 : Current.nodes[k].id \in DOMAIN Current.positions
    /\ positions[Current.nodes[3].id] # Current.positions[Current.nodes[3].id]

-----------------------------------------------------------------------------
(* Properties of the citation link *)

\* C29: at most one hover timer is pending, and only while the link is
\* mounted and the mouse has not left since it last entered, and it is the
\* timer of the last mouse-enter; the preview shows only while the mouse is
\* over the link; onHover is called, with citationToSearchQuery(citation),
\* and the preview is shown only by the timer of the last mouse-enter, with
\* the link mounted and the mouse still over it; a click has called onClick
\* with citationToSearchQuery(citation)
C29_HoverDebounce ==
    /\ [](/\ Cardinality(hoverTimers) <= 1
          /\ hoverTimers # {} => (linkMounted /\ over /\ hoverTimers = {enters})
          /\ (linkMounted /\ showPreview) => over
          /\ Len(hovered) <= enters
          /\ query \in {<<>>, CitationToSearchQuery(arg)})
    /\ [][(hovered' # hovered \/ (showPreview' /\ ~showPreview)) =>
            /\ linkMounted /\ over
            /\ enters \in hoverTimers /\ hoverTimers' = {}
            /\ showPreview'
            /\ hovered' = Append(hovered, CitationToSearchQuery(arg))]_vars

\* onHover was called once for two mouse-enters: the mouse left before the
\* timer of the second one fired, and the link was clicked
C29_Witness ==
    /\ enters = 2
    /\ Len(hovered) = 1
    /\ hoverTimers = {}
    /\ ~over /\ ~showPreview
    /\ linkMounted
    /\ query # <<>>
=============================================================================
